---- MODULE Spec2Model ----
(***************************************************************************)
(* EduLite backend: the course membership state machine of                 *)
(* backend/EduLite/courses (views.py, serializers.py, permissions.py,      *)
(* urls.py), modelled request by request.  Every action is one HTTP        *)
(* request handled from permission check to response.                      *)
(***************************************************************************)
EXTENDS Integers, FiniteSets, Sequences, TLC

\* ---------------------------------------------------------------- bounds
\* Highest primary key the membership table hands out (auto-increment cap).
MaxPk == 3
\* Most membership-removing requests that are in flight at once (SpecConc).
MaxInFlight == 2

\* ------------------------------------------------------------ universes
Users == {"u1", "u2"}
\* profile.occupation of each user (read by CanCreateCourse)
Occupation == [u \in Users |-> IF u = "u1" THEN "teacher" ELSE "student"]
\* primary keys the course table hands out
CourseIds == {1}
\* the accounts of the privacy rules (auth.User rows with a profile)
Accounts == {"p1", "p2", "p3"}
\* no settings record loaded, no answer given yet
NoSettings == [owner |-> "none", search_visibility |-> "none"]
NoAnswer == [fn |-> "none", subject |-> "none", actor |-> "none", result |-> FALSE]
Pks == 1..MaxPk

\* CourseMembership.role / CourseMembership.status choices, Course.visibility
Roles == {"student", "assistant", "teacher"}
Statuses == {"enrolled", "pending", "invited"}
Visibilities == {"public", "restricted", "private"}

\* A key that the request body does not carry (request.data.get(...) is None)
Absent == "absent"
NoCourse == 0

\* request bodies
InviteRoles == Roles \cup {Absent, "admin"}
PatchStatuses == Statuses \cup {Absent, "denied"}
PatchRoles == Roles \cup {Absent, "admin"}
PatchBodies ==
    [status : PatchStatuses, role : PatchRoles, user : {Absent}, course : {NoCourse}]
    \cup [status : {Absent}, role : {Absent}, user : Users, course : {NoCourse}]
    \cup [status : {Absent}, role : {Absent}, user : {Absent}, course : CourseIds]

VARIABLES
    courses,      \* Course table: id -> [visibility, allow_join_requests]
    nextCourseId, \* next auto-increment id of the Course table
    members,      \* CourseMembership table: set of rows [pk, user, course, role, status]
    nextPk,       \* next auto-increment pk of the CourseMembership table
    last,         \* the last request handled and its HTTP status code
    txns,         \* requests in flight: check done, write not yet committed
    slideshows,      \* Slideshow table: id -> [created_by, visibility, is_published, version, title]
    nextSlideshowId, \* next auto-increment id of the Slideshow table
    slides,          \* Slide table: set of rows [id, slideshow, order]
    nextSlideId,     \* next auto-increment id of the Slide table
    friends,      \* UserProfile.friends: account -> the accounts in its profile's friend set
    settings,     \* the UserProfilePrivacySettings record under evaluation
    answer,       \* the last answer PrivacyService gave
    requests      \* ProfileFriendRequest table: set of rows [sender, receiver]

courseVars == <<courses, nextCourseId, members, nextPk>>
slideVars == <<slideshows, nextSlideshowId, slides, nextSlideId>>
privacyVars == <<friends, settings, answer, requests>>

vars == <<courses, nextCourseId, members, nextPk, last, txns,
          slideshows, nextSlideshowId, slides, nextSlideId,
          friends, settings, answer, requests>>

\* ------------------------------------------------------------- queries
\* CourseMembership.objects.filter(course=c, user=u)
RowsOf(u, c) == {m \in members : m.user = u /\ m.course = c}

\* .first(): the row with the lowest pk
FirstRow(S) == CHOOSE m \in S : \A o \in S : m.pk <= o.pk

\* mutant: any enrolled row passes, whatever its role
IsCourseTeacher_any_role(u, c) ==
    \E m \in members : m.user = u /\ m.course = c /\ m.status = "enrolled"

IsCourseTeacher(u, c) ==
    \E m \in members :
        m.user = u /\ m.course = c /\ m.role = "teacher" /\ m.status = "enrolled"

\* mutant: any row passes, whatever its status
IsCourseMember_any_status(u, c) == \E m \in members : m.user = u /\ m.course = c

IsCourseMember(u, c) ==
    \E m \in members : m.user = u /\ m.course = c /\ m.status = "enrolled"

\* mutant: any other teacher row counts, whatever its status
is_last_teacher_any_status(m) ==
    IF m.role # "teacher"
    THEN FALSE
    ELSE ~\E o \in members : o.course = m.course /\ o.role = "teacher" /\ o.pk # m.pk

is_last_teacher(m) ==
    IF m.role # "teacher"
    THEN FALSE
    ELSE ~\E o \in members :
            o.course = m.course /\ o.role = "teacher" /\ o.status = "enrolled" /\ o.pk # m.pk

\* mutant: a restricted course takes join requests whatever its flag says
JoinStatus_ignores_flag(course) ==
    IF course.visibility = "public" THEN "enrolled"
    ELSE IF course.visibility = "restricted" THEN "pending"
    ELSE "none"

\* status a join request gets, "none" when the course does not allow joining
JoinStatus(course) ==
    IF course.visibility = "public" THEN "enrolled"
    ELSE IF course.visibility = "restricted" /\ course.allow_join_requests THEN "pending"
    ELSE "none"

Row(pk, u, c, role, status) ==
    [pk |-> pk, user |-> u, course |-> c, role |-> role, status |-> status]

Resp(op, code) == [op |-> op, code |-> code]

\* ---------------------------------------------------------------- init
Init ==
    /\ courses = <<>>
    /\ nextCourseId = 1
    /\ members = {}
    /\ nextPk = 1
    /\ last = Resp("none", 0)
    /\ txns = {}
    /\ slideshows = <<>>
    /\ nextSlideshowId = 1
    /\ slides = {}
    /\ nextSlideId = 1
    /\ friends = [a \in Accounts |-> {}]
    /\ settings = NoSettings
    /\ answer = NoAnswer
    /\ requests = {}

\* ------------------------------------------------------------ handlers
\* Each handler is written as the result it computes from the tables: the HTTP
\* status code and the tables it leaves.  The action that follows applies it.
Result(code, rows) == [code |-> code, members |-> rows]

\* profile.occupation == "teacher" (COURSE_CREATION_REQUIRES_TEACHER is on)
CanCreateCourse(u) == Occupation[u] = "teacher"

\* POST /courses/  (CourseListCreateView.post): status code
CreateCourseCode(u, valid) ==
    IF ~CanCreateCourse(u) THEN 403
    ELSE IF ~valid THEN 400
    ELSE 201

CreateCourse(u, vis, ajr, valid) ==
    /\ nextCourseId \in CourseIds
    /\ nextPk <= MaxPk
    /\ last' = Resp("create", CreateCourseCode(u, valid))
    /\ IF CreateCourseCode(u, valid) = 201
       THEN /\ courses' = [c \in DOMAIN courses \cup {nextCourseId} |->
                             IF c = nextCourseId
                             THEN [visibility |-> vis, allow_join_requests |-> ajr]
                             ELSE courses[c]]
            /\ nextCourseId' = nextCourseId + 1
            /\ members' = members \cup {Row(nextPk, u, nextCourseId, "teacher", "enrolled")}
            /\ nextPk' = nextPk + 1
       ELSE UNCHANGED <<courses, nextCourseId, members, nextPk>>
    /\ UNCHANGED txns
    /\ UNCHANGED <<slideVars, privacyVars>>

\* mutant: only an enrolled row counts as a membership
AlreadyMember_enrolled_only(u, c) == \E m \in RowsOf(u, c) : m.status = "enrolled"

\* CourseMembership.objects.filter(course=course, user=user).exists()
AlreadyMember(u, c) == RowsOf(u, c) # {}

\* POST /courses/<pk>/enroll/  (CourseEnrollView.post)
JoinResult(u, c) ==
    IF c \notin DOMAIN courses THEN Result(404, members)
    ELSE IF AlreadyMember(u, c) THEN Result(409, members)
    ELSE IF JoinStatus(courses[c]) = "none" THEN Result(403, members)
    ELSE Result(201, members \cup {Row(nextPk, u, c, "student", JoinStatus(courses[c]))})

Join(u, c) ==
    LET r == JoinResult(u, c) IN
    /\ r.code = 201 => nextPk <= MaxPk
    /\ last' = Resp("join", r.code)
    /\ members' = r.members
    /\ nextPk' = IF r.code = 201 THEN nextPk + 1 ELSE nextPk
    /\ UNCHANGED <<courses, nextCourseId, txns>>
    /\ UNCHANGED <<slideVars, privacyVars>>

\* the last-teacher test CourseEnrollView.delete makes inline
leave_is_last_teacher(m) ==
    /\ m.role = "teacher"
    /\ ~\E o \in members :
          o.course = m.course /\ o.role = "teacher" /\ o.status = "enrolled" /\ o.pk # m.pk

\* DELETE /courses/<pk>/enroll/  (CourseEnrollView.delete)
LeaveResult(u, c) ==
    IF RowsOf(u, c) = {} THEN Result(404, members)
    ELSE LET membership == FirstRow(RowsOf(u, c)) IN
         IF leave_is_last_teacher(membership) THEN Result(409, members)
         ELSE Result(204, members \ {membership})

Leave(u, c) ==
    LET r == LeaveResult(u, c) IN
    /\ last' = Resp("leave", r.code)
    /\ members' = r.members
    /\ UNCHANGED <<courses, nextCourseId, nextPk, txns>>
    /\ UNCHANGED <<slideVars, privacyVars>>

\* POST /courses/<pk>/enroll/accept/ : urlpatterns has no route for it and
\* views.py no view, the URL resolver answers 404 and nothing runs
AcceptResult(u, c) == Result(404, members)

Accept(u, c) ==
    LET r == AcceptResult(u, c) IN
    /\ last' = Resp("accept", r.code)
    /\ members' = r.members
    /\ UNCHANGED <<courses, nextCourseId, nextPk, txns>>
    /\ UNCHANGED <<slideVars, privacyVars>>

\* POST /courses/<pk>/enroll/decline/ : no route and no view either
DeclineResult(u, c) == Result(404, members)

Decline(u, c) ==
    LET r == DeclineResult(u, c) IN
    /\ last' = Resp("decline", r.code)
    /\ members' = r.members
    /\ UNCHANGED <<courses, nextCourseId, nextPk, txns>>
    /\ UNCHANGED <<slideVars, privacyVars>>

\* permission_classes = [IsCourseMember], then IsCourseTeacher in the handler
TeacherAllowed(u, c) == IsCourseMember(u, c) /\ IsCourseTeacher(u, c)

\* mutant: the invited row is a student whatever role the body asks for
InviteRow_always_student(pk, target, c, role) == Row(pk, target, c, "student", "invited")

\* the row an invite creates: role = request.data.get("role", "student")
InviteRow(pk, target, c, role) ==
    Row(pk, target, c, IF role = Absent THEN "student" ELSE role, "invited")

\* POST /courses/<pk>/members/  (CourseMembershipListInviteView.post)
InviteResult(u, c, target, role) ==
    IF ~TeacherAllowed(u, c) THEN Result(403, members)
    ELSE IF c \notin DOMAIN courses THEN Result(404, members)
    ELSE IF AlreadyMember(target, c) THEN Result(409, members)
    ELSE Result(201, members \cup {InviteRow(nextPk, target, c, role)})

Invite(u, c, target, role) ==
    LET r == InviteResult(u, c, target, role) IN
    /\ r.code = 201 => nextPk <= MaxPk
    /\ last' = Resp("invite", r.code)
    /\ members' = r.members
    /\ nextPk' = IF r.code = 201 THEN nextPk + 1 ELSE nextPk
    /\ UNCHANGED <<courses, nextCourseId, txns>>
    /\ UNCHANGED <<slideVars, privacyVars>>

\* CourseMembershipSerializer(membership, data, partial=True).is_valid()
SerializerValid(m, d) ==
    LET user == IF d.user # Absent THEN d.user ELSE m.user
        course == IF d.course # NoCourse THEN d.course ELSE m.course
        role == IF d.role # Absent THEN d.role ELSE m.role
        status == IF d.status # Absent THEN d.status ELSE m.status
    IN  /\ d.role \in Roles \cup {Absent}
        /\ d.status \in Statuses \cup {Absent}
        /\ d.course \in DOMAIN courses \cup {NoCourse}
        /\ {o \in members : o.user = user /\ o.course = course /\ o.pk # m.pk} = {}
        /\ ~(role # "student" /\ status = "pending")

\* serializer.save(): the fields the body carries are written
Updated(m, d) ==
    [pk |-> m.pk,
     user |-> IF d.user # Absent THEN d.user ELSE m.user,
     course |-> IF d.course # NoCourse THEN d.course ELSE m.course,
     role |-> IF d.role # Absent THEN d.role ELSE m.role,
     status |-> IF d.status # Absent THEN d.status ELSE m.status]

\* get_object(pk, membership_id)
GetObject(c, pk) == {m \in members : m.pk = pk /\ m.course = c}

\* mutant: the deny branch is never taken, the body goes to the serializer
IsDeny_never(d) == FALSE

\* request.data.get("status") == "denied"
IsDeny(d) == d.status = "denied"

\* last-teacher protection of PATCH: only a body that carries a non-teacher role
DemotesLastTeacher(m, d) ==
    /\ d.role # Absent
    /\ d.role # "teacher"
    /\ m.role = "teacher"
    /\ is_last_teacher(m)

\* PATCH /courses/<pk>/members/<membership_id>/  (CourseMembershipDetailView.patch)
PatchResult(u, c, pk, d) ==
    IF ~TeacherAllowed(u, c) THEN Result(403, members)
    ELSE IF GetObject(c, pk) = {} THEN Result(404, members)
    ELSE LET membership == FirstRow(GetObject(c, pk)) IN
         IF IsDeny(d) THEN Result(204, members \ {membership})
         ELSE IF DemotesLastTeacher(membership, d) THEN Result(409, members)
         ELSE IF ~SerializerValid(membership, d) THEN Result(400, members)
         ELSE Result(200, (members \ {membership}) \cup {Updated(membership, d)})

Patch(u, c, pk, d) ==
    LET r == PatchResult(u, c, pk, d) IN
    /\ last' = Resp("patch", r.code)
    /\ members' = r.members
    /\ UNCHANGED <<courses, nextCourseId, nextPk, txns>>
    /\ UNCHANGED <<slideVars, privacyVars>>

\* DELETE /courses/<pk>/members/<membership_id>/  (CourseMembershipDetailView.delete)
RemoveResult(u, c, pk) ==
    IF ~TeacherAllowed(u, c) THEN Result(403, members)
    ELSE IF GetObject(c, pk) = {} THEN Result(404, members)
    ELSE LET membership == FirstRow(GetObject(c, pk)) IN
         IF is_last_teacher(membership) THEN Result(409, members)
         ELSE Result(204, members \ {membership})

Remove(u, c, pk) ==
    LET r == RemoveResult(u, c, pk) IN
    /\ last' = Resp("remove", r.code)
    /\ members' = r.members
    /\ UNCHANGED <<courses, nextCourseId, nextPk, txns>>
    /\ UNCHANGED <<slideVars, privacyVars>>

\* PATCH /courses/<pk>/  (CourseDetailView.patch): status code
CoursePatchCode(u, c) ==
    IF ~TeacherAllowed(u, c) THEN 403
    ELSE IF c \notin DOMAIN courses THEN 404
    ELSE 200

CoursePatch(u, c, vis, ajr) ==
    /\ last' = Resp("course_patch", CoursePatchCode(u, c))
    /\ courses' = IF CoursePatchCode(u, c) = 200
                  THEN [courses EXCEPT ![c] = [visibility |-> vis, allow_join_requests |-> ajr]]
                  ELSE courses
    /\ UNCHANGED <<nextCourseId, members, nextPk, txns>>
    /\ UNCHANGED <<slideVars, privacyVars>>

\* DELETE /courses/<pk>/  (CourseDetailView.delete): status code
CourseDeleteCode(u, c) ==
    IF ~TeacherAllowed(u, c) THEN 403
    ELSE IF c \notin DOMAIN courses THEN 404
    ELSE 204

\* course.delete() cascades to the course's memberships
CourseDelete(u, c) ==
    /\ last' = Resp("course_delete", CourseDeleteCode(u, c))
    /\ IF CourseDeleteCode(u, c) = 204
       THEN /\ courses' = [x \in DOMAIN courses \ {c} |-> courses[x]]
            /\ members' = {m \in members : m.course # c}
       ELSE UNCHANGED <<courses, members>>
    /\ UNCHANGED <<nextCourseId, nextPk, txns>>
    /\ UNCHANGED <<slideVars, privacyVars>>

\* GET /courses/<pk>/  (CourseDetailView.get): IsCourseMember, then get_object
CourseRetrieveCode(u, c) ==
    IF ~IsCourseMember(u, c) THEN 403
    ELSE IF c \notin DOMAIN courses THEN 404
    ELSE 200

CourseRetrieve(u, c) ==
    /\ last' = Resp("course_get", CourseRetrieveCode(u, c))
    /\ UNCHANGED <<courses, nextCourseId, members, nextPk, txns>>
    /\ UNCHANGED <<slideVars, privacyVars>>

\* GET /courses/<pk>/modules/  (CourseModuleListCreateView.get)
ModuleListCode(u, c) ==
    IF ~IsCourseMember(u, c) THEN 403
    ELSE IF c \notin DOMAIN courses THEN 404
    ELSE 200

ModuleList(u, c) ==
    /\ last' = Resp("module_list", ModuleListCode(u, c))
    /\ UNCHANGED <<courses, nextCourseId, members, nextPk, txns>>
    /\ UNCHANGED <<slideVars, privacyVars>>

\* GET /courses/<pk>/members/  (CourseMembershipListInviteView.get)
MemberListCode(u, c) ==
    IF ~IsCourseMember(u, c) THEN 403
    ELSE IF c \notin DOMAIN courses THEN 404
    ELSE 200

MemberList(u, c) ==
    /\ last' = Resp("member_list", MemberListCode(u, c))
    /\ UNCHANGED <<courses, nextCourseId, members, nextPk, txns>>
    /\ UNCHANGED <<slideVars, privacyVars>>

Next ==
    \/ \E u \in Users, c \in CourseIds : CourseRetrieve(u, c)
    \/ \E u \in Users, c \in CourseIds : ModuleList(u, c)
    \/ \E u \in Users, c \in CourseIds : MemberList(u, c)
    \/ \E u \in Users, vis \in Visibilities, ajr \in BOOLEAN, valid \in BOOLEAN :
          CreateCourse(u, vis, ajr, valid)
    \/ \E u \in Users, c \in CourseIds : Join(u, c)
    \/ \E u \in Users, c \in CourseIds : Leave(u, c)
    \/ \E u \in Users, c \in CourseIds : Accept(u, c)
    \/ \E u \in Users, c \in CourseIds : Decline(u, c)
    \/ \E u \in Users, c \in CourseIds, t \in Users, r \in InviteRoles : Invite(u, c, t, r)
    \/ \E u \in Users, c \in CourseIds, pk \in Pks, d \in PatchBodies : Patch(u, c, pk, d)
    \/ \E u \in Users, c \in CourseIds, pk \in Pks : Remove(u, c, pk)
    \/ \E u \in Users, c \in CourseIds, vis \in Visibilities, ajr \in BOOLEAN :
          CoursePatch(u, c, vis, ajr)
    \/ \E u \in Users, c \in CourseIds : CourseDelete(u, c)

Spec == Init /\ [][Next]_vars

\* --------------------------------------------- requests that run concurrently
\* transaction.atomic gives each request an all-or-nothing write, and takes no
\* lock on the rows it has read: between a request's last-teacher check and
\* its DELETE another request may commit.  A request in flight is remembered
\* by the row it fetched.
Txn(op, u, c, pk) == [op |-> op, user |-> u, course |-> c, pk |-> pk]

\* CourseEnrollView.delete up to the last-teacher check
LeaveBegin(u, c) ==
    /\ Cardinality(txns) < MaxInFlight
    /\ IF LeaveResult(u, c).code = 204
       THEN /\ txns' = txns \cup {Txn("leave", u, c, FirstRow(RowsOf(u, c)).pk)}
            /\ UNCHANGED last
       ELSE /\ last' = Resp("leave", LeaveResult(u, c).code)
            /\ UNCHANGED txns
    /\ UNCHANGED <<courses, nextCourseId, members, nextPk>>
    /\ UNCHANGED <<slideVars, privacyVars>>

\* CourseEnrollView.delete from membership.delete() to the commit
LeaveCommit(t) ==
    /\ t.op = "leave"
    /\ members' = {m \in members : m.pk # t.pk}
    /\ txns' = txns \ {t}
    /\ last' = Resp("leave", 204)
    /\ UNCHANGED <<courses, nextCourseId, nextPk>>
    /\ UNCHANGED <<slideVars, privacyVars>>

\* CourseMembershipDetailView.delete up to the last-teacher check
RemoveBegin(u, c, pk) ==
    /\ Cardinality(txns) < MaxInFlight
    /\ IF RemoveResult(u, c, pk).code = 204
       THEN /\ txns' = txns \cup {Txn("remove", u, c, pk)}
            /\ UNCHANGED last
       ELSE /\ last' = Resp("remove", RemoveResult(u, c, pk).code)
            /\ UNCHANGED txns
    /\ UNCHANGED <<courses, nextCourseId, members, nextPk>>
    /\ UNCHANGED <<slideVars, privacyVars>>

\* CourseMembershipDetailView.delete from membership.delete() to the commit
RemoveCommit(t) ==
    /\ t.op = "remove"
    /\ members' = {m \in members : m.pk # t.pk}
    /\ txns' = txns \ {t}
    /\ last' = Resp("remove", 204)
    /\ UNCHANGED <<courses, nextCourseId, nextPk>>
    /\ UNCHANGED <<slideVars, privacyVars>>

\* the body of an approval: {"status": "enrolled"}
ApproveBody == [status |-> "enrolled", role |-> Absent, user |-> Absent, course |-> NoCourse]

NextConc ==
    \/ \E u \in Users, vis \in Visibilities, ajr \in BOOLEAN, valid \in BOOLEAN :
          CreateCourse(u, vis, ajr, valid)
    \/ \E u \in Users, c \in CourseIds, t \in Users, r \in InviteRoles : Invite(u, c, t, r)
    \/ \E u \in Users, c \in CourseIds, pk \in Pks : Patch(u, c, pk, ApproveBody)
    \/ \E u \in Users, c \in CourseIds : LeaveBegin(u, c)
    \/ \E t \in txns : LeaveCommit(t)
    \/ \E u \in Users, c \in CourseIds, pk \in Pks : RemoveBegin(u, c, pk)
    \/ \E t \in txns : RemoveCommit(t)

SpecConc == Init /\ [][NextConc]_vars

\* ------------------------------------- requests that create a row run together
\* CourseEnrollView.post and CourseMembershipListInviteView.post test
\* filter(course, user).exists() and then create the row, inside
\* transaction.atomic and without a lock: between the test of one request and
\* its INSERT another request may commit.  The pk field of a request in flight
\* numbers the request.
FreeSlots == (1..MaxInFlight) \ {t.pk : t \in txns}

\* Whether the table refuses a second row of a (user, course) pair at INSERT:
\* the model class decides, either way is taken.
PairConstraint == BOOLEAN

\* CourseEnrollView.post up to the choice of the status
JoinBegin(u, c) ==
    /\ IF JoinResult(u, c).code = 201
       THEN /\ \E n \in FreeSlots : txns' = txns \cup {Txn("join", u, c, n)}
            /\ UNCHANGED last
       ELSE /\ last' = Resp("join", JoinResult(u, c).code)
            /\ UNCHANGED txns
    /\ UNCHANGED <<courses, nextCourseId, members, nextPk>>
    /\ UNCHANGED <<slideVars, privacyVars>>

\* CourseMembershipListInviteView.post up to the role of the new row
InviteBegin(u, c, target) ==
    /\ IF InviteResult(u, c, target, Absent).code = 201
       THEN /\ \E n \in FreeSlots : txns' = txns \cup {Txn("invite", target, c, n)}
            /\ UNCHANGED last
       ELSE /\ last' = Resp("invite", InviteResult(u, c, target, Absent).code)
            /\ UNCHANGED txns
    /\ UNCHANGED <<courses, nextCourseId, members, nextPk>>
    /\ UNCHANGED <<slideVars, privacyVars>>

\* the row a request in flight creates
NewRow(t) ==
    IF t.op = "join"
    THEN Row(nextPk, t.user, t.course, "student", JoinStatus(courses[t.course]))
    ELSE InviteRow(nextPk, t.user, t.course, Absent)

\* CourseMembership.objects.create(...) and the commit: 201 and the row, or an
\* IntegrityError that rolls the request back and answers 500
CreateCommit(t, enforced) ==
    /\ t.op \in {"join", "invite"}
    /\ nextPk <= MaxPk
    /\ txns' = txns \ {t}
    /\ IF enforced /\ AlreadyMember(t.user, t.course)
       THEN /\ last' = Resp(t.op, 500)
            /\ UNCHANGED <<members, nextPk>>
       ELSE /\ last' = Resp(t.op, 201)
            /\ members' = members \cup {NewRow(t)}
            /\ nextPk' = nextPk + 1
    /\ UNCHANGED <<courses, nextCourseId>>
    /\ UNCHANGED <<slideVars, privacyVars>>

NextConcCreate ==
    \/ \E u \in Users, vis \in Visibilities, ajr \in BOOLEAN, valid \in BOOLEAN :
          CreateCourse(u, vis, ajr, valid)
    \/ \E u \in Users, c \in CourseIds : JoinBegin(u, c)
    \/ \E u \in Users, c \in CourseIds, target \in Users : InviteBegin(u, c, target)
    \/ \E t \in txns, enforced \in PairConstraint : CreateCommit(t, enforced)

SpecConcCreate == Init /\ [][NextConcCreate]_vars

\* ================================================================ slideshows
\* backend/EduLite/slideshows (models.py, permissions.py, serializers.py,
\* views.py).  Callers are authenticated users (IsAuthenticated).
MaxSlideshowId == 1
MaxSlideId == 2
MaxVersion == 3

SlideshowIds == 1..MaxSlideshowId
SlideIds == 1..MaxSlideId
SlideshowVisibilities == {"public", "unlisted", "private"}
Titles == {"t1", "t2"}
\* Slide.order left out of the body (default None)
NoOrder == -1
Orders == {0, 1}
SAFE_METHODS == {"GET", "HEAD", "OPTIONS"}

\* The "version" key of a PATCH body, by the form of its value: left out, a
\* JSON integer or integer string ("2"), a string that writes the integer as
\* a decimal ("2.0"), or text that is no number.
VersionInputs ==
    {[form |-> "absent", n |-> 0], [form |-> "text", n |-> 0]}
    \cup [form : {"number", "decimal_string"}, n : 1..MaxVersion]

\* The "slides" key of a PATCH body: given or not, and the orders of the
\* slides it lists.
SlideLists ==
    {[given |-> FALSE, orders |-> <<>>], [given |-> TRUE, orders |-> <<>>],
     [given |-> TRUE, orders |-> <<NoOrder>>], [given |-> TRUE, orders |-> <<0, 0>>]}

\* a body without the "slides" key
NoSlideList == [given |-> FALSE, orders |-> <<>>]

\* PATCH bodies of a slideshow: a version and at most one other key
SlideshowBodies ==
    [version : VersionInputs, slides : SlideLists,
     title : {Absent}, visibility : {Absent}, is_published : {Absent}]
    \cup [version : VersionInputs, slides : {NoSlideList},
          title : {"t2"}, visibility : {Absent}, is_published : {Absent}]
    \cup [version : VersionInputs, slides : {NoSlideList},
          title : {Absent}, visibility : SlideshowVisibilities, is_published : {Absent}]
    \cup [version : VersionInputs, slides : {NoSlideList},
          title : {Absent}, visibility : {Absent}, is_published : {"true", "false"}]

\* mutant: a non-owner reads public and unlisted slideshows, published or not
IsOwnerOrReadOnly_ignores_published(method, slideshow, user) ==
    IF slideshow.created_by = user THEN TRUE
    ELSE IF method \in SAFE_METHODS THEN slideshow.visibility \in {"public", "unlisted"}
    ELSE FALSE

\* IsOwnerOrReadOnly.has_object_permission on the slideshow (of the slide)
IsOwnerOrReadOnly(method, slideshow, user) ==
    IF slideshow.created_by = user THEN TRUE
    ELSE IF method \in SAFE_METHODS
    THEN IF ~slideshow.is_published THEN FALSE
         ELSE slideshow.visibility \in {"public", "unlisted"}
    ELSE FALSE

\* the rows of the Slide table that belong to slideshow sid
SlidesOf(sid, rows) == {x \in rows : x.slideshow = sid}

\* the greatest of a non-empty set of numbers
MaxOf(S) == CHOOSE x \in S : \A y \in S : y <= x

\* mutant: a new slide gets the number of slides as its order
AssignedOrder_count(sid, rows, order) ==
    IF order # NoOrder THEN order ELSE Cardinality(SlidesOf(sid, rows))

\* Slide.save(): the order a new slide gets
AssignedOrder(sid, rows, order) ==
    IF order # NoOrder THEN order
    ELSE IF SlidesOf(sid, rows) = {} THEN 0
    ELSE MaxOf({x.order : x \in SlidesOf(sid, rows)}) + 1

\* unique_together (slideshow, order): the INSERT or UPDATE is refused
OrderTaken(sid, rows, order) == \E x \in SlidesOf(sid, rows) : x.order = order

SlideRow(id, sid, order) == [id |-> id, slideshow |-> sid, order |-> order]

\* the fields of SlideSerializer.Meta
SlideFields == {"id", "order", "content", "rendered_content", "notes", "created_at", "updated_at"}
\* a serializer context without a request (or whose request has no user)
NoRequest == "no_request"

\* SlideSerializer.to_representation: the keys of the output, for the user of
\* the request in the context
ToRepresentation(slide, request_user) ==
    IF request_user # NoRequest /\ slideshows[slide.slideshow].created_by # request_user
    THEN SlideFields \ {"content", "notes"}
    ELSE SlideFields

\* what a slideshow request answers and the tables it leaves
SResult(code, shows, rows, nid) ==
    [code |-> code, slideshows |-> shows, slides |-> rows, nextSlideId |-> nid]

SUnchanged(code) == SResult(code, slideshows, slides, nextSlideId)

\* IntegerField.to_internal_value of the serializer's writable "version" field:
\* the text of the value with a trailing ".0" dropped must read as an integer
VersionFieldValid(v) == v.form # "text"

\* validate(): client_version = int(request.data.get("version")), compared with
\* instance.version; a value int() refuses (ValueError) is not compared
VersionConflict(instance, v) == v.form = "number" /\ v.n # instance.version

\* update(): setattr of every validated field, then instance.version += 1
UpdatedSlideshow(instance, d) ==
    [created_by |-> instance.created_by,
     visibility |-> IF d.visibility # Absent THEN d.visibility ELSE instance.visibility,
     is_published |-> IF d.is_published # Absent THEN d.is_published = "true"
                      ELSE instance.is_published,
     title |-> IF d.title # Absent THEN d.title ELSE instance.title,
     version |-> (IF d.version.form # "absent" THEN d.version.n ELSE instance.version) + 1]

\* update(): Slide.objects.create for each listed slide, in order; ok is
\* FALSE when one INSERT breaks unique_together
RECURSIVE CreateSlides(_, _, _, _)
CreateSlides(sid, orders, rows, nid) ==
    IF orders = <<>> THEN [ok |-> TRUE, slides |-> rows, nextSlideId |-> nid]
    ELSE LET order == AssignedOrder(sid, rows, Head(orders)) IN
         IF OrderTaken(sid, rows, order)
         THEN [ok |-> FALSE, slides |-> rows, nextSlideId |-> nid]
         ELSE CreateSlides(sid, Tail(orders), rows \cup {SlideRow(nid, sid, order)}, nid + 1)

\* POST /slideshows/  (SlideshowListCreateView.post), a body without slides
SlideshowCreate(u, vis, pub, valid) ==
    /\ nextSlideshowId <= MaxSlideshowId
    /\ last' = Resp("slideshow_create", IF valid THEN 201 ELSE 400)
    /\ IF valid
       THEN /\ slideshows' = [i \in DOMAIN slideshows \cup {nextSlideshowId} |->
                                IF i = nextSlideshowId
                                THEN [created_by |-> u, visibility |-> vis,
                                      is_published |-> pub, title |-> "t1", version |-> 1]
                                ELSE slideshows[i]]
            /\ nextSlideshowId' = nextSlideshowId + 1
       ELSE UNCHANGED <<slideshows, nextSlideshowId>>
    /\ UNCHANGED <<slides, nextSlideId, txns, courseVars, privacyVars>>

\* GET /slideshows/<pk>/  (SlideshowRetrieveUpdateDestroyView.get): status code
SlideshowGetCode(u, id) ==
    IF id \notin DOMAIN slideshows THEN 404
    ELSE IF ~IsOwnerOrReadOnly("GET", slideshows[id], u) THEN 403
    ELSE 200

SlideshowGet(u, id) ==
    /\ last' = Resp("slideshow_get", SlideshowGetCode(u, id))
    /\ UNCHANGED <<slideVars, txns, courseVars, privacyVars>>

\* PATCH /slideshows/<pk>/  (SlideshowRetrieveUpdateDestroyView.patch)
SlideshowPatchResult(u, id, d) ==
    IF id \notin DOMAIN slideshows THEN SUnchanged(404)
    ELSE IF ~IsOwnerOrReadOnly("PATCH", slideshows[id], u) THEN SUnchanged(403)
    ELSE IF ~VersionFieldValid(d.version) THEN SUnchanged(400)
    ELSE IF VersionConflict(slideshows[id], d.version) THEN SUnchanged(400)
    ELSE LET shows == [slideshows EXCEPT ![id] = UpdatedSlideshow(slideshows[id], d)]
             kept == slides \ SlidesOf(id, slides)
             made == CreateSlides(id, d.slides.orders, kept, nextSlideId)
         IN IF ~d.slides.given THEN SResult(200, shows, slides, nextSlideId)
            ELSE IF ~made.ok THEN SUnchanged(500)
            ELSE SResult(200, shows, made.slides, made.nextSlideId)

SlideshowPatch(u, id, d) ==
    LET r == SlideshowPatchResult(u, id, d) IN
    /\ r.nextSlideId <= MaxSlideId + 1
    /\ \A i \in DOMAIN r.slideshows : r.slideshows[i].version <= MaxVersion
    /\ last' = Resp("slideshow_patch", r.code)
    /\ slideshows' = r.slideshows
    /\ slides' = r.slides
    /\ nextSlideId' = r.nextSlideId
    /\ UNCHANGED <<nextSlideshowId, txns, courseVars, privacyVars>>

\* DELETE /slideshows/<pk>/  (SlideshowRetrieveUpdateDestroyView.delete)
SlideshowDeleteCode(u, id) ==
    IF id \notin DOMAIN slideshows THEN 404
    ELSE IF ~IsOwnerOrReadOnly("DELETE", slideshows[id], u) THEN 403
    ELSE 204

\* slideshow.delete() cascades to its slides
SlideshowDelete(u, id) ==
    /\ last' = Resp("slideshow_delete", SlideshowDeleteCode(u, id))
    /\ IF SlideshowDeleteCode(u, id) = 204
       THEN /\ slideshows' = [i \in DOMAIN slideshows \ {id} |-> slideshows[i]]
            /\ slides' = slides \ SlidesOf(id, slides)
       ELSE UNCHANGED <<slideshows, slides>>
    /\ UNCHANGED <<nextSlideshowId, nextSlideId, txns, courseVars, privacyVars>>

\* the slideshow row with its version incremented (version += 1; save())
Bumped(shows, id) == [shows EXCEPT ![id].version = @ + 1]

\* POST /slideshows/<pk>/slides/  (SlideCreateView.post)
SlideCreateResult(u, id, order, valid) ==
    IF id \notin DOMAIN slideshows THEN SUnchanged(404)
    ELSE IF slideshows[id].created_by # u THEN SUnchanged(403)
    ELSE IF ~valid THEN SUnchanged(400)
    ELSE IF OrderTaken(id, slides, AssignedOrder(id, slides, order)) THEN SUnchanged(500)
    ELSE SResult(201, Bumped(slideshows, id),
                 slides \cup {SlideRow(nextSlideId, id, AssignedOrder(id, slides, order))},
                 nextSlideId + 1)

SlideCreate(u, id, order, valid) ==
    LET r == SlideCreateResult(u, id, order, valid) IN
    /\ r.nextSlideId <= MaxSlideId + 1
    /\ \A i \in DOMAIN r.slideshows : r.slideshows[i].version <= MaxVersion
    /\ last' = Resp("slide_create", r.code)
    /\ slideshows' = r.slideshows
    /\ slides' = r.slides
    /\ nextSlideId' = r.nextSlideId
    /\ UNCHANGED <<nextSlideshowId, txns, courseVars, privacyVars>>

\* SlideRetrieveUpdateDestroyView.get_object: the slide is found by slide_id
\* alone, the pk of the URL plays no part
GetSlide(slide_id) == {x \in slides : x.id = slide_id}

\* GET /slideshows/<pk>/slides/<slide_id>/  (SlideRetrieveUpdateDestroyView.get)
SlideGetCode(u, slide_id) ==
    IF GetSlide(slide_id) = {} THEN 404
    ELSE LET slide == CHOOSE x \in GetSlide(slide_id) : TRUE IN
         IF ~IsOwnerOrReadOnly("GET", slideshows[slide.slideshow], u) THEN 403
         ELSE 200

SlideGet(u, slide_id) ==
    /\ last' = Resp("slide_get", SlideGetCode(u, slide_id))
    /\ UNCHANGED <<slideVars, txns, courseVars, privacyVars>>

\* PATCH /slideshows/<pk>/slides/<slide_id>/  (SlideRetrieveUpdateDestroyView.patch)
SlidePatchResult(u, slide_id, order, valid) ==
    IF GetSlide(slide_id) = {} THEN SUnchanged(404)
    ELSE LET slide == CHOOSE x \in GetSlide(slide_id) : TRUE
             sid == slide.slideshow
             saved == [slide EXCEPT !.order = IF order # NoOrder THEN order ELSE @]
         IN IF ~IsOwnerOrReadOnly("PATCH", slideshows[sid], u) THEN SUnchanged(403)
            ELSE IF ~valid THEN SUnchanged(400)
            ELSE IF OrderTaken(sid, slides \ {slide}, saved.order) THEN SUnchanged(500)
            ELSE SResult(200, Bumped(slideshows, sid),
                         (slides \ {slide}) \cup {saved}, nextSlideId)

SlidePatch(u, slide_id, order, valid) ==
    LET r == SlidePatchResult(u, slide_id, order, valid) IN
    /\ \A i \in DOMAIN r.slideshows : r.slideshows[i].version <= MaxVersion
    /\ last' = Resp("slide_patch", r.code)
    /\ slideshows' = r.slideshows
    /\ slides' = r.slides
    /\ UNCHANGED <<nextSlideshowId, nextSlideId, txns, courseVars, privacyVars>>

\* DELETE /slideshows/<pk>/slides/<slide_id>/  (SlideRetrieveUpdateDestroyView.delete)
SlideDeleteResult(u, slide_id) ==
    IF GetSlide(slide_id) = {} THEN SUnchanged(404)
    ELSE LET slide == CHOOSE x \in GetSlide(slide_id) : TRUE
             sid == slide.slideshow
         IN IF ~IsOwnerOrReadOnly("DELETE", slideshows[sid], u) THEN SUnchanged(403)
            ELSE SResult(204, Bumped(slideshows, sid), slides \ {slide}, nextSlideId)

SlideDelete(u, slide_id) ==
    LET r == SlideDeleteResult(u, slide_id) IN
    /\ \A i \in DOMAIN r.slideshows : r.slideshows[i].version <= MaxVersion
    /\ last' = Resp("slide_delete", r.code)
    /\ slideshows' = r.slideshows
    /\ slides' = r.slides
    /\ UNCHANGED <<nextSlideshowId, nextSlideId, txns, courseVars, privacyVars>>

NextSlides ==
    \/ \E u \in Users, vis \in SlideshowVisibilities, pub \in BOOLEAN, valid \in BOOLEAN :
          SlideshowCreate(u, vis, pub, valid)
    \/ \E u \in Users, id \in SlideshowIds : SlideshowGet(u, id)
    \/ \E u \in Users, id \in SlideshowIds, d \in SlideshowBodies : SlideshowPatch(u, id, d)
    \/ \E u \in Users, id \in SlideshowIds : SlideshowDelete(u, id)
    \/ \E u \in Users, id \in SlideshowIds, order \in Orders \cup {NoOrder}, valid \in BOOLEAN :
          SlideCreate(u, id, order, valid)
    \/ \E u \in Users, slide_id \in SlideIds : SlideGet(u, slide_id)
    \/ \E u \in Users, slide_id \in SlideIds, order \in Orders \cup {NoOrder}, valid \in BOOLEAN :
          SlidePatch(u, slide_id, order, valid)
    \/ \E u \in Users, slide_id \in SlideIds : SlideDelete(u, slide_id)

SpecSlides == Init /\ [][NextSlides]_vars

\* ------------------------------------- slideshow PATCH requests run together
\* transaction.atomic, and get_object reads the row without select_for_update:
\* a request validates the body against the row it read, and save() later
\* writes every field of that row as the request holds it in memory.
ConcBodies ==
    [version : [form : {"number"}, n : 1..MaxVersion], slides : {NoSlideList},
     title : {Absent, "t2"}, visibility : {Absent, "public"}, is_published : {Absent}]

\* patch() up to serializer.is_valid(): the row read and the body, kept when valid
SlideshowPatchBegin(u, id, d) ==
    /\ Cardinality(txns) < MaxInFlight
    /\ IF SlideshowPatchResult(u, id, d).code = 200
       THEN /\ txns' = txns \cup {[op |-> "slideshow_patch", user |-> u, id |-> id,
                                   instance |-> slideshows[id], body |-> d]}
            /\ UNCHANGED last
       ELSE /\ last' = Resp("slideshow_patch", SlideshowPatchResult(u, id, d).code)
            /\ UNCHANGED txns
    /\ UNCHANGED <<slideVars, courseVars, privacyVars>>

\* patch() from serializer.save() to the commit
SlideshowPatchCommit(t) ==
    /\ t.op = "slideshow_patch"
    /\ UpdatedSlideshow(t.instance, t.body).version <= MaxVersion
    /\ slideshows' = [slideshows EXCEPT ![t.id] = UpdatedSlideshow(t.instance, t.body)]
    /\ txns' = txns \ {t}
    /\ last' = Resp("slideshow_patch", 200)
    /\ UNCHANGED <<nextSlideshowId, slides, nextSlideId, courseVars, privacyVars>>

NextSlidesConc ==
    \/ \E u \in Users, vis \in SlideshowVisibilities, pub \in BOOLEAN, valid \in BOOLEAN :
          SlideshowCreate(u, vis, pub, valid)
    \/ \E u \in Users, id \in SlideshowIds, d \in ConcBodies : SlideshowPatchBegin(u, id, d)
    \/ \E t \in txns : SlideshowPatchCommit(t)

SpecSlidesConc == Init /\ [][NextSlidesConc]_vars

\* =================================================================== privacy
\* backend/EduLite/users/services/privacy_service.py.  The functions read the
\* settings record of the target and the friend sets of the profiles.
SearchVisibilities == {"everyone", "nobody", "friends_only", "friends_of_friends"}
\* requesting_user is None, or is a user object that is not authenticated
NoUser == "None"
AnonymousUser == "AnonymousUser"
Actors == Accounts \cup {NoUser, AnonymousUser}

\* the friend stores: each profile's friend set, never holding its own user
FriendStores == {g \in [Accounts -> SUBSET Accounts] : \A a \in Accounts : a \notin g[a]}
\* the settings records: the owner (user_profile.user) and the search visibility
SettingsRecords == [owner : Accounts, search_visibility : SearchVisibilities]

\* mutant: the two friend sets are intersected
have_mutual_friends_intersection(user_profile, other_user) ==
    friends[user_profile] \cap friends[other_user] # {}

\* user_profile.friends.filter(profile__friends=other_user).exists()
have_mutual_friends(user_profile, other_user) ==
    \E f \in friends[user_profile] : other_user \in friends[f]

\* mutant: friends_of_friends is answered like friends_only
can_be_found_by_user_direct_only(privacy_settings, requesting_user) ==
    IF requesting_user \in {NoUser, AnonymousUser}
    THEN privacy_settings.search_visibility = "everyone"
    ELSE IF requesting_user = privacy_settings.owner THEN TRUE
    ELSE IF privacy_settings.search_visibility = "everyone" THEN TRUE
    ELSE IF privacy_settings.search_visibility = "nobody" THEN FALSE
    ELSE requesting_user \in friends[privacy_settings.owner]

can_be_found_by_user(privacy_settings, requesting_user) ==
    IF requesting_user = NoUser THEN privacy_settings.search_visibility = "everyone"
    ELSE IF requesting_user = AnonymousUser
    THEN privacy_settings.search_visibility = "everyone"
    ELSE IF requesting_user = privacy_settings.owner THEN TRUE
    ELSE IF privacy_settings.search_visibility = "everyone" THEN TRUE
    ELSE IF privacy_settings.search_visibility = "nobody" THEN FALSE
    ELSE IF privacy_settings.search_visibility = "friends_only"
    THEN requesting_user \in friends[privacy_settings.owner]
    ELSE IF privacy_settings.search_visibility = "friends_of_friends"
    THEN IF requesting_user \in friends[privacy_settings.owner] THEN TRUE
         ELSE have_mutual_friends(privacy_settings.owner, requesting_user)
    ELSE FALSE

Answer(fn, subject, actor, result) ==
    [fn |-> fn, subject |-> subject, actor |-> actor, result |-> result]

InitPrivacy ==
    /\ courses = <<>>
    /\ nextCourseId = 1
    /\ members = {}
    /\ nextPk = 1
    /\ last = Resp("none", 0)
    /\ txns = {}
    /\ slideshows = <<>>
    /\ nextSlideshowId = 1
    /\ slides = {}
    /\ nextSlideId = 1
    /\ friends \in FriendStores
    /\ settings \in SettingsRecords
    /\ answer = NoAnswer
    /\ requests = {}

\* profile.friends.add(user): user joins the friend set of profile
AddFriend(profile, user) ==
    /\ profile # user
    /\ friends' = [friends EXCEPT ![profile] = @ \cup {user}]
    /\ UNCHANGED <<settings, answer, requests, last, txns, courseVars, slideVars>>

\* privacy_settings.search_visibility = v; save()
SetSearchVisibility(v) ==
    /\ settings' = [settings EXCEPT !.search_visibility = v]
    /\ UNCHANGED <<friends, answer, requests, last, txns, courseVars, slideVars>>

CanBeFound(requesting_user) ==
    /\ answer' = Answer("can_be_found_by_user", settings.owner, requesting_user,
                        can_be_found_by_user(settings, requesting_user))
    /\ UNCHANGED <<friends, settings, requests, last, txns, courseVars, slideVars>>

HaveMutualFriends(user_profile, other_user) ==
    /\ answer' = Answer("have_mutual_friends", user_profile, other_user,
                        have_mutual_friends(user_profile, other_user))
    /\ UNCHANGED <<friends, settings, requests, last, txns, courseVars, slideVars>>

NextPrivacy ==
    \/ \E profile \in Accounts, user \in Accounts : AddFriend(profile, user)
    \/ \E v \in SearchVisibilities : SetSearchVisibility(v)
    \/ \E requesting_user \in Actors : CanBeFound(requesting_user)
    \/ \E user_profile \in Accounts, other_user \in Accounts :
          HaveMutualFriends(user_profile, other_user)

SpecPrivacy == InitPrivacy /\ [][NextPrivacy]_vars

\* ================================================================== profiles
\* rows the ProfileFriendRequest table holds at most
MaxRequests == 1

ProfileVisibilities == {"public", "private", "friends_only"}
\* the account whose settings the checks evaluate (privacy1 of user1)
ProfileOwner == "p1"
\* UserProfilePrivacySettings rows of that account
ProfileSettings ==
    [owner : {ProfileOwner}, search_visibility : SearchVisibilities,
     profile_visibility : ProfileVisibilities, allow_friend_requests : BOOLEAN,
     show_email : BOOLEAN, show_full_name : BOOLEAN]
\* the accounts that ask: the owner and one other (user1, user2)
Askers == {ProfileOwner, "p2"}
\* requesting_user: None, AnonymousUser(), or a user row with its two flags
Requesters ==
    [user : Askers, is_staff : BOOLEAN, is_superuser : BOOLEAN]
    \cup [user : {NoUser, AnonymousUser}, is_staff : {FALSE}, is_superuser : {FALSE}]
\* ProfileFriendRequest rows: to the account under evaluation, or sent by it
FriendRequests ==
    [sender : Accounts \ {ProfileOwner}, receiver : {ProfileOwner}]
    \cup [sender : {ProfileOwner}, receiver : Askers \ {ProfileOwner}]

BaseFields == {"url", "username", "profile_url"}
NameFields == {"first_name", "last_name", "full_name"}

\* getattr(requesting_user, "is_authenticated", False)
is_authenticated(requesting_user) == requesting_user.user \in Accounts

\* mutant: friends_only is answered like public
can_view_full_profile_friends_as_public(privacy_settings, requesting_user) ==
    IF ~is_authenticated(requesting_user)
    THEN privacy_settings.profile_visibility = "public"
    ELSE IF requesting_user.user = privacy_settings.owner THEN TRUE
    ELSE IF requesting_user.is_superuser \/ requesting_user.is_staff THEN TRUE
    ELSE privacy_settings.profile_visibility # "private"

can_view_full_profile(privacy_settings, requesting_user) ==
    IF requesting_user.user = NoUser
    THEN privacy_settings.profile_visibility = "public"
    ELSE IF ~is_authenticated(requesting_user)
    THEN privacy_settings.profile_visibility = "public"
    ELSE IF requesting_user.user = privacy_settings.owner THEN TRUE
    ELSE IF requesting_user.is_superuser \/ requesting_user.is_staff THEN TRUE
    ELSE IF privacy_settings.profile_visibility = "public" THEN TRUE
    ELSE IF privacy_settings.profile_visibility = "private" THEN FALSE
    ELSE IF privacy_settings.profile_visibility = "friends_only"
    THEN requesting_user.user \in friends[privacy_settings.owner]
    ELSE FALSE

\* mutant: a request already sent does not block another
can_receive_friend_request_ignores_existing(privacy_settings, requesting_user) ==
    /\ is_authenticated(requesting_user)
    /\ requesting_user.user # privacy_settings.owner
    /\ privacy_settings.allow_friend_requests
    /\ requesting_user.user \notin friends[privacy_settings.owner]

can_receive_friend_request(privacy_settings, requesting_user) ==
    IF requesting_user.user = NoUser THEN FALSE
    ELSE IF ~is_authenticated(requesting_user) THEN FALSE
    ELSE IF requesting_user.user = privacy_settings.owner THEN FALSE
    ELSE IF ~privacy_settings.allow_friend_requests THEN FALSE
    ELSE IF requesting_user.user \in friends[privacy_settings.owner] THEN FALSE
    ELSE LET existing_request ==
                 \E q \in requests : /\ q.sender = requesting_user.user
                                     /\ q.receiver = privacy_settings.owner
         IN IF existing_request THEN FALSE ELSE TRUE

\* user.profile.privacy_settings, None for an account without such a row
get_privacy_settings(user) == IF user = settings.owner THEN settings ELSE NoSettings

should_show_email(user, requesting_user) ==
    IF requesting_user.user # NoUser /\ user = requesting_user.user THEN TRUE
    ELSE IF /\ requesting_user.user # NoUser
            /\ (requesting_user.is_superuser \/ requesting_user.is_staff)
    THEN TRUE
    ELSE LET privacy_settings == get_privacy_settings(user)
         IN IF privacy_settings # NoSettings THEN privacy_settings.show_email
            ELSE FALSE

\* mutant: without a settings record the name is hidden
should_show_full_name_default_hidden(user, requesting_user) ==
    IF requesting_user.user # NoUser /\ user = requesting_user.user THEN TRUE
    ELSE IF /\ requesting_user.user # NoUser
            /\ (requesting_user.is_superuser \/ requesting_user.is_staff)
    THEN TRUE
    ELSE LET privacy_settings == get_privacy_settings(user)
         IN IF privacy_settings # NoSettings THEN privacy_settings.show_full_name
            ELSE FALSE

should_show_full_name(user, requesting_user) ==
    IF requesting_user.user # NoUser /\ user = requesting_user.user THEN TRUE
    ELSE IF /\ requesting_user.user # NoUser
            /\ (requesting_user.is_superuser \/ requesting_user.is_staff)
    THEN TRUE
    ELSE LET privacy_settings == get_privacy_settings(user)
         IN IF privacy_settings # NoSettings THEN privacy_settings.show_full_name
            ELSE TRUE

get_visible_fields(user, requesting_user) ==
    BaseFields
    \cup (IF should_show_email(user, requesting_user) THEN {"email"} ELSE {})
    \cup (IF should_show_full_name(user, requesting_user) THEN NameFields ELSE {})

InitProfile ==
    /\ courses = <<>>
    /\ nextCourseId = 1
    /\ members = {}
    /\ nextPk = 1
    /\ last = Resp("none", 0)
    /\ txns = {}
    /\ slideshows = <<>>
    /\ nextSlideshowId = 1
    /\ slides = {}
    /\ nextSlideId = 1
    /\ friends = [a \in Accounts |-> {}]
    /\ settings \in ProfileSettings
    /\ answer = NoAnswer
    /\ requests = {}

\* self.profile1.friends.add(user)
Befriend(user) ==
    /\ user # ProfileOwner
    /\ friends' = [friends EXCEPT ![ProfileOwner] = @ \cup {user}]
    /\ UNCHANGED <<settings, answer, requests, last, txns, courseVars, slideVars>>

\* ProfileFriendRequest.objects.create(sender=..., receiver=...)
CreateFriendRequest(q) ==
    /\ Cardinality(requests) < MaxRequests
    /\ requests' = requests \cup {q}
    /\ UNCHANGED <<friends, settings, answer, last, txns, courseVars, slideVars>>

\* self.privacy1.profile_visibility = v; save()
SetProfileVisibility(v) ==
    /\ settings' = [settings EXCEPT !.profile_visibility = v]
    /\ UNCHANGED <<friends, answer, requests, last, txns, courseVars, slideVars>>

CanViewFullProfile(requesting_user) ==
    /\ answer' = Answer("can_view_full_profile", settings.owner, requesting_user,
                        can_view_full_profile(settings, requesting_user))
    /\ UNCHANGED <<friends, settings, requests, last, txns, courseVars, slideVars>>

CanReceiveFriendRequest(requesting_user) ==
    /\ answer' = Answer("can_receive_friend_request", settings.owner, requesting_user,
                        can_receive_friend_request(settings, requesting_user))
    /\ UNCHANGED <<friends, settings, requests, last, txns, courseVars, slideVars>>

GetVisibleFields(user, requesting_user) ==
    /\ answer' = Answer("get_visible_fields", user, requesting_user,
                        get_visible_fields(user, requesting_user))
    /\ UNCHANGED <<friends, settings, requests, last, txns, courseVars, slideVars>>

\* can_be_found_by_user reads nothing of the requester but its identity
SearchProfile(requesting_user) ==
    /\ answer' = Answer("can_be_found_by_user", settings.owner, requesting_user,
                        can_be_found_by_user(settings, requesting_user.user))
    /\ UNCHANGED <<friends, settings, requests, last, txns, courseVars, slideVars>>

NextProfile ==
    \/ \E user \in Accounts : Befriend(user)
    \/ \E q \in FriendRequests : CreateFriendRequest(q)
    \/ \E v \in ProfileVisibilities : SetProfileVisibility(v)
    \/ \E requesting_user \in Requesters : CanViewFullProfile(requesting_user)
    \/ \E requesting_user \in Requesters : CanReceiveFriendRequest(requesting_user)
    \/ \E user \in Askers, requesting_user \in Requesters :
          GetVisibleFields(user, requesting_user)
    \/ \E requesting_user \in Requesters : SearchProfile(requesting_user)

SpecProfile == InitProfile /\ [][NextProfile]_vars

\* ============================================================= slide rows
\* Slide.objects.create and slide.delete() on the Slide table, two slideshows.
\* primary keys the Slide table hands out here
MaxRowId == 4
TwoSlideshows == {1, 2}
RowOrders == {NoOrder, 0, 1}

\* Slide.objects.create(slideshow=sid, order=order): Slide.save() and the
\* INSERT under unique_together; ok is FALSE for IntegrityError
SlideObjectsCreate(sid, order) == CreateSlides(sid, <<order>>, slides, nextSlideId)

InitSlideRows ==
    /\ courses = <<>>
    /\ nextCourseId = 1
    /\ members = {}
    /\ nextPk = 1
    /\ last = Resp("none", 0)
    /\ txns = {}
    /\ slideshows = [i \in TwoSlideshows |->
                       [created_by |-> "u1", visibility |-> "private",
                        is_published |-> FALSE, title |-> "t1", version |-> 1]]
    /\ nextSlideshowId = 3
    /\ slides = {}
    /\ nextSlideId = 1
    /\ friends = [a \in Accounts |-> {}]
    /\ settings = NoSettings
    /\ answer = NoAnswer
    /\ requests = {}

CreateRow(sid, order) ==
    LET r == SlideObjectsCreate(sid, order) IN
    /\ nextSlideId <= MaxRowId
    /\ last' = Resp(IF r.ok THEN "Slide.objects.create" ELSE "IntegrityError", 0)
    /\ slides' = r.slides
    /\ nextSlideId' = r.nextSlideId
    /\ UNCHANGED <<slideshows, nextSlideshowId, txns, courseVars, privacyVars>>

\* slide.delete()
DeleteRow(x) ==
    /\ x \in slides
    /\ last' = Resp("slide.delete", 0)
    /\ slides' = slides \ {x}
    /\ UNCHANGED <<slideshows, nextSlideshowId, nextSlideId, txns, courseVars, privacyVars>>

NextSlideRows ==
    \/ \E sid \in TwoSlideshows, order \in RowOrders : CreateRow(sid, order)
    \/ \E x \in slides : DeleteRow(x)

SpecSlideRows == InitSlideRows /\ [][NextSlideRows]_vars

\* =========================================================== two courses
\* The membership handlers when the teacher has created two courses; a PATCH
\* body may carry the "course" field, which the serializer writes.
TwoCourses == {1, 2}
TransferBodies ==
    [status : {Absent, "enrolled", "denied"}, role : {Absent, "teacher"},
     user : {Absent}, course : TwoCourses \cup {NoCourse}]

\* u1 has created course 1, public, and course 2, restricted or private, and
\* holds the two creator rows
InitTwoCourses ==
    /\ courses \in [TwoCourses -> [visibility : Visibilities, allow_join_requests : {FALSE}]]
    /\ courses[1].visibility = "public"
    /\ courses[2].visibility # "public"
    /\ nextCourseId = 3
    /\ members = {Row(1, "u1", 1, "teacher", "enrolled"), Row(2, "u1", 2, "teacher", "enrolled")}
    /\ nextPk = 3
    /\ last = Resp("none", 0)
    /\ txns = {}
    /\ slideshows = <<>>
    /\ nextSlideshowId = 1
    /\ slides = {}
    /\ nextSlideId = 1
    /\ friends = [a \in Accounts |-> {}]
    /\ settings = NoSettings
    /\ answer = NoAnswer
    /\ requests = {}

NextTwoCourses ==
    \/ \E u \in Users, c \in TwoCourses : Join(u, c)
    \/ \E u \in Users, c \in TwoCourses : Leave(u, c)
    \/ \E u \in Users, c \in TwoCourses : Accept(u, c)
    \/ \E u \in Users, c \in TwoCourses : Decline(u, c)
    \/ \E u \in Users, c \in TwoCourses, t \in Users, r \in InviteRoles : Invite(u, c, t, r)
    \/ \E u \in Users, c \in TwoCourses, pk \in Pks, d \in TransferBodies : Patch(u, c, pk, d)
    \/ \E u \in Users, c \in TwoCourses, pk \in Pks : Remove(u, c, pk)

SpecTwoCourses == InitTwoCourses /\ [][NextTwoCourses]_vars

\* =================================================================== claims
\* The rows of course c that are enrolled teachers.
EnrolledTeachers(c, rows) ==
    {m \in rows : m.course = c /\ m.role = "teacher" /\ m.status = "enrolled"}

\* bodies that carry the given role and nothing else
RoleOnly(r) == [status |-> Absent, role |-> r, user |-> Absent, course |-> NoCourse]
\* bodies that carry the given status and nothing else
StatusOnly(st) == [status |-> st, role |-> Absent, user |-> Absent, course |-> NoCourse]

\* C1: every existing course has at least one membership with role=teacher
\* and status=enrolled, in every reachable state.
C1_CourseKeepsEnrolledTeacher ==
    \A c \in DOMAIN courses : EnrolledTeachers(c, members) # {}

\* C2: when M is the course's only enrolled teacher, a teacher DELETE of M, a
\* PATCH that carries a non-teacher role for M (and is no deny) and M's own
\* user leaving all answer 409 and leave every row as it is; when another
\* enrolled teacher exists each of them succeeds: DELETE and leave remove
\* exactly M, a PATCH of the role alone writes the role.
C2_LastTeacherGuard ==
    \A M \in members :
      (M.role = "teacher" /\ M.status = "enrolled") =>
        LET only == EnrolledTeachers(M.course, members) = {M}
            refused == Result(409, members)
            removed == Result(204, members \ {M})
        IN
        /\ LeaveResult(M.user, M.course) = IF only THEN refused ELSE removed
        /\ \A u \in Users :
             IsCourseTeacher(u, M.course) =>
               RemoveResult(u, M.course, M.pk) = IF only THEN refused ELSE removed
        /\ \A u \in Users, d \in PatchBodies :
             (/\ IsCourseTeacher(u, M.course)
              /\ d.role \notin {Absent, "teacher"}
              /\ d.status # "denied") =>
                IF only
                THEN PatchResult(u, M.course, M.pk, d) = refused
                ELSE (d = RoleOnly(d.role) /\ d.role \in Roles) =>
                       PatchResult(u, M.course, M.pk, d) =
                         Result(200, (members \ {M}) \cup {[M EXCEPT !.role = d.role]})

\* C2 witness: the only enrolled teacher was refused (409) while a second
\* teacher row, invited and not enrolled, exists in the course.
C2_Witness ==
    /\ last.code = 409
    /\ last.op \in {"leave", "remove", "patch"}
    /\ \E M \in members :
          /\ EnrolledTeachers(M.course, members) = {M}
          /\ \E o \in members :
                o.course = M.course /\ o.role = "teacher" /\ o.status = "invited"

\* C3: a request that removes an enrolled teacher (leave, or a teacher's
\* DELETE) and succeeds leaves the course with an enrolled teacher, also when
\* other removing requests run at the same time: two requests that each remove
\* an enrolled teacher never both succeed and empty the course of teachers.
C3_RemovalKeepsTeacher ==
    [][\A t \in txns :
         (/\ LeaveCommit(t) \/ RemoveCommit(t)
          /\ \E m \in EnrolledTeachers(t.course, members) : m.pk = t.pk)
         => EnrolledTeachers(t.course, members') # {}
      ]_vars

\* C4: no two rows share a (user, course) pair, and for a pair that has a row
\* in any status a join, and an invite by an enrolled teacher, answer 409 and
\* leave every row as it is.
C4_OneMembershipPerPair ==
    /\ \A m1, m2 \in members :
         (m1.user = m2.user /\ m1.course = m2.course) => m1 = m2
    /\ \A m \in members :
         /\ JoinResult(m.user, m.course) = Result(409, members)
         /\ \A u \in Users, r \in InviteRoles :
              IsCourseTeacher(u, m.course) =>
                InviteResult(u, m.course, m.user, r) = Result(409, members)

\* C4 witness: a join or an invite was refused with 409 while the table holds
\* a row that is not enrolled (invited or pending).
C4_Witness ==
    /\ last.op \in {"join", "invite"}
    /\ last.code = 409
    /\ \E m \in members : m.status \in {"invited", "pending"}

\* what a join that creates a row with status st for (u, c) looks like
JoinCreates(u, c, st) ==
    LET r == JoinResult(u, c) IN
    /\ r.code = 201
    /\ members \subseteq r.members
    /\ Cardinality(r.members \ members) = 1
    /\ \A m \in r.members \ members :
         m.user = u /\ m.course = c /\ m.role = "student" /\ m.status = st

\* C5: for a user with no row in an existing course, join creates one row,
\* student and enrolled, when the course is public; student and pending when
\* it is restricted with allow_join_requests; otherwise (restricted without
\* join requests, private) it answers 403 and leaves every row as it is.
C5_JoinByVisibility ==
    \A u \in Users, c \in DOMAIN courses :
      RowsOf(u, c) = {} =>
        IF courses[c].visibility = "public" THEN JoinCreates(u, c, "enrolled")
        ELSE IF courses[c].visibility = "restricted" /\ courses[c].allow_join_requests
        THEN JoinCreates(u, c, "pending")
        ELSE JoinResult(u, c) = Result(403, members)

\* C5 witness: a join has just created a pending student row in a restricted
\* course that takes join requests.
C5_Witness ==
    /\ last = Resp("join", 201)
    /\ \E m \in members :
         /\ m.status = "pending" /\ m.role = "student"
         /\ courses[m.course].visibility = "restricted"
         /\ courses[m.course].allow_join_requests

\* what accepting does to the invited row m: status enrolled, role kept
Accepted(m) == Result(200, (members \ {m}) \cup {[m EXCEPT !.status = "enrolled"]})

\* C6: accept-invitation by u on course c succeeds exactly when u's own row in
\* c is invited, and then sets that row to enrolled keeping its role; in every
\* other case (no row, pending, enrolled) it answers 404 and changes no row.
C6_AcceptInvitation ==
    \A u \in Users, c \in CourseIds :
      IF \E m \in RowsOf(u, c) : m.status = "invited"
      THEN \E m \in RowsOf(u, c) : AcceptResult(u, c) = Accepted(m)
      ELSE AcceptResult(u, c) = Result(404, members)

\* C7: decline-invitation by u on course c, when u's row in c is invited,
\* deletes that row (204) and leaves u no row in c; in every other case it
\* answers 404 and changes no row; no row ever has status declined.
C7_DeclineInvitation ==
    /\ \A m \in members : m.status # "declined"
    /\ \A u \in Users, c \in CourseIds :
         IF \E m \in RowsOf(u, c) : m.status = "invited"
         THEN \E m \in RowsOf(u, c) :
                 /\ DeclineResult(u, c) = Result(204, members \ {m})
                 /\ {o \in DeclineResult(u, c).members : o.user = u /\ o.course = c} = {}
         ELSE DeclineResult(u, c) = Result(404, members)

\* status of the pair (u, c) in a table, "none" when it has no row
StatusOf(u, c, rows) ==
    IF \E m \in rows : m.user = u /\ m.course = c
    THEN (CHOOSE m \in rows : m.user = u /\ m.course = c).status
    ELSE "none"

\* the status changes of a pair that the membership state machine has
AllowedStatusChange ==
    {<<"none", "invited">>, <<"none", "pending">>, <<"none", "enrolled">>,
     <<"invited", "enrolled">>, <<"pending", "enrolled">>}

\* C8: in every step the status of each (user, course) pair stays as it is,
\* follows one of none->invited, none->pending, none->enrolled,
\* invited->enrolled, pending->enrolled, or the row is removed.
C8_StatusTransitions ==
    [][\A u \in Users, c \in CourseIds :
         LET a == StatusOf(u, c, members)
             b == StatusOf(u, c, members')
         IN a = b \/ b = "none" \/ <<a, b>> \in AllowedStatusChange
      ]_vars

\* C9: a teacher's PATCH {"status": "enrolled"} on a pending row answers 200
\* and sets the row to enrolled; a teacher's PATCH {"status": "denied"} on a
\* pending or invited row answers 204 and deletes the row; every stored row
\* has a status in {enrolled, pending, invited}, never denied.
C9_ApproveAndDeny ==
    /\ \A m \in members : m.status \in Statuses /\ m.status # "denied"
    /\ \A m \in members, u \in Users :
         TeacherAllowed(u, m.course) =>
           /\ m.status = "pending" =>
                PatchResult(u, m.course, m.pk, StatusOnly("enrolled")) =
                  Result(200, (members \ {m}) \cup {[m EXCEPT !.status = "enrolled"]})
           /\ m.status \in {"pending", "invited"} =>
                PatchResult(u, m.course, m.pk, StatusOnly("denied")) =
                  Result(204, members \ {m})

\* C9 witness: a teacher's PATCH has just deleted a row (204): a primary key
\* handed out is gone, the course keeps its enrolled teacher and every row
\* left has a status of the three.
C9_Witness ==
    /\ last = Resp("patch", 204)
    /\ nextPk - 1 > Cardinality(members)
    /\ \E c \in DOMAIN courses : EnrolledTeachers(c, members) # {}
    /\ \A m \in members : m.status \in Statuses

C11_InviteRoleValidated ==
    /\ \A m \in members : m.role \in Roles
    /\ \A u \in Users, t \in Users, c \in DOMAIN courses, r \in InviteRoles :
         (TeacherAllowed(u, c) /\ RowsOf(t, c) = {} /\ r \notin Roles \cup {Absent}) =>
           InviteResult(u, c, t, r) = Result(400, members)

\* u holds a row in course c with role teacher and status enrolled
HoldsEnrolledTeacherRow(u, c) == \E m \in EnrolledTeachers(c, members) : m.user = u

\* C12: for a caller without an enrolled teacher row in the course, invite,
\* membership PATCH, membership DELETE, course PATCH and course DELETE answer
\* 403 and change neither a row nor the course.
C12_TeacherOnlyWrites ==
    \A u \in Users, c \in CourseIds :
      ~HoldsEnrolledTeacherRow(u, c) =>
        /\ \A t \in Users, r \in InviteRoles :
             InviteResult(u, c, t, r) = Result(403, members)
        /\ \A pk \in Pks :
             /\ \A d \in PatchBodies : PatchResult(u, c, pk, d) = Result(403, members)
             /\ RemoveResult(u, c, pk) = Result(403, members)
        /\ CoursePatchCode(u, c) = 403
        /\ CourseDeleteCode(u, c) = 403

\* C12 witness: a write was refused with 403 while the course holds a
\* teacher row that is only invited.
C12_Witness ==
    /\ last.code = 403
    /\ last.op \in {"invite", "patch", "remove", "course_patch", "course_delete"}
    /\ \E m \in members : m.role = "teacher" /\ m.status = "invited"

MayRead(S, R) == R = S.created_by \/ (S.is_published /\ S.visibility \in {"public", "unlisted"})
MayWrite(S, R) == R = S.created_by

\* C14: for every slideshow S and requester R, GET of S and of each slide of S
\* is answered 200 iff R is the owner or S is published and public or
\* unlisted, 403 otherwise; PATCH and DELETE of S and create, PATCH and DELETE
\* of a slide of S are refused (403, nothing changes) iff R is not the owner.
C14_SlideshowAccess ==
    \A id \in DOMAIN slideshows, R \in Users :
      LET S == slideshows[id]
          refused == SUnchanged(403)
      IN
      /\ SlideshowGetCode(R, id) = IF MayRead(S, R) THEN 200 ELSE 403
      /\ SlideshowDeleteCode(R, id) = IF MayWrite(S, R) THEN 204 ELSE 403
      /\ \A d \in SlideshowBodies :
           IF MayWrite(S, R) THEN SlideshowPatchResult(R, id, d).code # 403
           ELSE SlideshowPatchResult(R, id, d) = refused
      /\ \A order \in Orders \cup {NoOrder}, valid \in BOOLEAN :
           IF MayWrite(S, R) THEN SlideCreateResult(R, id, order, valid).code # 403
           ELSE SlideCreateResult(R, id, order, valid) = refused
      /\ \A x \in SlidesOf(id, slides) :
           /\ SlideGetCode(R, x.id) = IF MayRead(S, R) THEN 200 ELSE 403
           /\ IF MayWrite(S, R) THEN SlideDeleteResult(R, x.id).code = 204
              ELSE SlideDeleteResult(R, x.id) = refused
           /\ \A order \in Orders \cup {NoOrder}, valid \in BOOLEAN :
                IF MayWrite(S, R) THEN SlidePatchResult(R, x.id, order, valid).code # 403
                ELSE SlidePatchResult(R, x.id, order, valid) = refused

\* C14 witness: the read of a slide was refused (403) and a public slideshow
\* that is not published holds a slide.
C14_Witness ==
    /\ last = Resp("slide_get", 403)
    /\ \E id \in DOMAIN slideshows :
          /\ ~slideshows[id].is_published
          /\ slideshows[id].visibility = "public"
          /\ SlidesOf(id, slides) # {}

\* C15: the output of the slide serializer holds content or notes only when
\* the requester is the owner of the slide's slideshow; in every other
\* serialization it is the fields without content and notes, rendered_content
\* included.
C15_RawFieldsOwnerOnly ==
    \A x \in slides, request_user \in Users \cup {NoRequest} :
      LET data == ToRepresentation(x, request_user)
          owner == slideshows[x.slideshow].created_by
      IN /\ "rendered_content" \in data
         /\ IF request_user = owner THEN data = SlideFields
            ELSE data = SlideFields \ {"content", "notes"}

\* C16: a slideshow PATCH, a slide creation, a slide PATCH and a slide DELETE
\* leave the version of the slideshow one higher when they succeed and as it
\* was when they are rejected.
C16_VersionIncrements ==
    \A u \in Users, id \in DOMAIN slideshows :
      LET v == slideshows[id].version
          Step(r, ok) == r.slideshows[id].version = IF r.code = ok THEN v + 1 ELSE v
      IN
      /\ \A d \in SlideshowBodies : Step(SlideshowPatchResult(u, id, d), 200)
      /\ \A order \in Orders \cup {NoOrder}, valid \in BOOLEAN :
           Step(SlideCreateResult(u, id, order, valid), 201)
      /\ \A x \in SlidesOf(id, slides) :
           /\ Step(SlideDeleteResult(u, x.id), 204)
           /\ \A order \in Orders \cup {NoOrder}, valid \in BOOLEAN :
                Step(SlidePatchResult(u, x.id, order, valid), 200)

\* C17: a slideshow PATCH whose body carries a version other than the stored
\* one is rejected and leaves the slideshow, its version and its slides as
\* they were.
C17_StaleVersionRejected ==
    \A u \in Users, id \in DOMAIN slideshows, d \in SlideshowBodies :
      (/\ d.version.form \in {"number", "decimal_string"}
       /\ d.version.n # slideshows[id].version) =>
         LET r == SlideshowPatchResult(u, id, d) IN
         /\ r.code \in {400, 403}
         /\ r = SUnchanged(r.code)

\* C18: the version a slideshow PATCH compared with the body's version is
\* still the stored version when the request writes: of two requests that
\* both carry the current version and run together, the one that writes
\* second is not accepted.
C18_VersionCheckAtomic ==
    [][\A t \in txns :
         SlideshowPatchCommit(t) => slideshows[t.id].version = t.instance.version
      ]_vars

\* some member of a's friend set has b in its own friend set
FriendOfAFriend(a, b) == \E f \in Accounts : f \in friends[a] /\ b \in friends[f]

\* the settings of owner a with search visibility friends_of_friends
FofSettings(a) == [owner |-> a, search_visibility |-> "friends_of_friends"]

\* C19: can_be_found for the settings under evaluation: an actor that is None
\* or not authenticated is answered (search_visibility = everyone); the owner
\* is answered true; any other account true for everyone, false for nobody,
\* (actor in the owner's friend set) for friends_only, and (actor in the
\* owner's friend set, or a friend of the owner has the actor as a friend) for
\* friends_of_friends.
C19_CanBeFound ==
    \A actor \in Actors :
      LET r == can_be_found_by_user(settings, actor)
          v == settings.search_visibility
          direct == actor \in friends[settings.owner]
      IN IF actor \in {NoUser, AnonymousUser} THEN r = (v = "everyone")
         ELSE IF actor = settings.owner THEN r = TRUE
         ELSE IF v = "everyone" THEN r = TRUE
         ELSE IF v = "nobody" THEN r = FALSE
         ELSE IF v = "friends_only" THEN r = direct
         ELSE r = (direct \/ FriendOfAFriend(settings.owner, actor))

\* C19 witness: under friends_of_friends an account that is no direct friend
\* of the owner was answered true.
C19_Witness ==
    /\ answer.fn = "can_be_found_by_user"
    /\ answer.result
    /\ settings.search_visibility = "friends_of_friends"
    /\ answer.actor \in Accounts \ ({settings.owner} \cup friends[settings.owner])

\* C20 as stated: have_mutual_friends(a, b) is true iff the friend sets of a
\* and b intersect; a pair that shares no friend and is not directly
\* befriended is not found under friends_of_friends.
C20_MutualFriendsIntersection ==
    \A a \in Accounts : \A b \in Accounts \ {a} :
      /\ have_mutual_friends(a, b) = (friends[a] \cap friends[b] # {})
      /\ (friends[a] \cap friends[b] = {} /\ b \notin friends[a] /\ a \notin friends[b])
           => ~can_be_found_by_user(FofSettings(a), b)

\* C20 amended: have_mutual_friends(a, b) is true iff some member of a's
\* friend set has b in its own friend set; a pair without such a member, b not
\* in a's friend set, is not found under friends_of_friends, and with one such
\* member it is found.
C20_MutualFriendsViaFriend ==
    \A a \in Accounts : \A b \in Accounts \ {a} :
      /\ have_mutual_friends(a, b) = FriendOfAFriend(a, b)
      /\ b \notin friends[a] =>
           can_be_found_by_user(FofSettings(a), b) = FriendOfAFriend(a, b)

\* C20 witness: have_mutual_friends answered true for two accounts whose
\* friend sets do not intersect.
C20_Witness ==
    /\ answer.fn = "have_mutual_friends"
    /\ answer.result
    /\ answer.subject # answer.actor
    /\ friends[answer.subject] \cap friends[answer.actor] = {}

\* what the rule of profile visibility gives a requester in the current state
FullProfileRule(r) ==
    IF r.user \in {NoUser, AnonymousUser} THEN settings.profile_visibility = "public"
    ELSE IF r.user = settings.owner \/ r.is_staff \/ r.is_superuser THEN TRUE
    ELSE IF settings.profile_visibility = "public" THEN TRUE
    ELSE IF settings.profile_visibility = "private" THEN FALSE
    ELSE r.user \in friends[settings.owner]

\* a step in which can_view_full_profile gave a new answer
AnsweredFullProfile ==
    /\ answer'.fn = "can_view_full_profile"
    /\ \/ answer.fn # "can_view_full_profile"
       \/ answer.actor # answer'.actor
       \/ answer.result # answer'.result

\* C21: can_view_full_profile answers an anonymous or unauthenticated
\* requester (profile_visibility = public), the owner and every staff or
\* superuser account true, any other account true for public, false for
\* private and (requester in the owner's friend set) for friends_only; a call
\* changes neither the settings nor the friend sets nor the friend requests,
\* and the same call made again right after it gives the same answer.
C21_ViewFullProfile ==
    /\ [](\A r \in Requesters : can_view_full_profile(settings, r) = FullProfileRule(r))
    /\ [][AnsweredFullProfile =>
            /\ UNCHANGED <<settings, friends, requests>>
            /\ \E r \in Requesters :
                  /\ r = answer'.actor
                  /\ answer'.result = can_view_full_profile(settings, r)']_vars

\* C21 witness: an account that is neither the owner nor staff nor superuser
\* was shown a friends_only profile, being in the owner's friend set.
C21_Witness ==
    /\ answer.fn = "can_view_full_profile"
    /\ answer.result
    /\ settings.profile_visibility = "friends_only"
    /\ answer.actor.user \in friends[settings.owner]
    /\ ~answer.actor.is_staff /\ ~answer.actor.is_superuser

\* a ProfileFriendRequest row from the requester to the owner of the settings
RequestExists(r) ==
    \E q \in requests : q.sender = r.user /\ q.receiver = settings.owner

\* C22: can_receive_friend_request is false when the requester is anonymous
\* or unauthenticated, is the owner of the settings, allow_friend_requests is
\* false, the requester is in the owner's friend set, or a friend request from
\* the requester to the owner exists; in every other case it is true.
C22_ReceiveFriendRequest ==
    \A r \in Requesters :
        can_receive_friend_request(settings, r) =
            ~ \/ r.user \in {NoUser, AnonymousUser}
              \/ r.user = settings.owner
              \/ ~settings.allow_friend_requests
              \/ r.user \in friends[settings.owner]
              \/ RequestExists(r)

\* C22 witness: an account allowed by every other condition was refused
\* because its friend request to the owner already exists.
C22_Witness ==
    /\ answer.fn = "can_receive_friend_request"
    /\ ~answer.result
    /\ answer.actor.user \in Accounts \ ({settings.owner} \cup friends[settings.owner])
    /\ settings.allow_friend_requests
    /\ RequestExists(answer.actor)

\* the target has a privacy settings record
HasSettings(user) == user = settings.owner
\* the requester is the target, or is staff or superuser
SelfOrPrivileged(user, r) == r.user = user \/ r.is_staff \/ r.is_superuser

\* C23: get_visible_fields always holds url, username and profile_url; email
\* iff the requester is the target, or staff or superuser, or the target has
\* settings with show_email true; first_name, last_name and full_name, all or
\* none, iff the requester is the target, or staff or superuser, or the target
\* has no settings or has show_full_name true; and no other field.
C23_VisibleFields ==
    \A user \in Askers : \A r \in Requesters :
      LET visible == get_visible_fields(user, r)
      IN /\ BaseFields \subseteq visible
         /\ ("email" \in visible) =
              (SelfOrPrivileged(user, r) \/ (HasSettings(user) /\ settings.show_email))
         /\ (NameFields \subseteq visible) =
              (SelfOrPrivileged(user, r) \/ ~HasSettings(user) \/ settings.show_full_name)
         /\ NameFields \subseteq visible \/ NameFields \cap visible = {}
         /\ visible \subseteq BaseFields \cup {"email"} \cup NameFields

\* C23 witness: for a target without a settings record a requester that is
\* neither the target nor staff nor superuser got the names and not the email.
C23_Witness ==
    /\ answer.fn = "get_visible_fields"
    /\ ~HasSettings(answer.subject)
    /\ ~SelfOrPrivileged(answer.subject, answer.actor)
    /\ answer.result = BaseFields \cup NameFields

\* an authenticated requester with is_staff or is_superuser
Privileged(r) == r.user \in Accounts /\ (r.is_staff \/ r.is_superuser)

\* C24: a requester that is authenticated and staff or superuser is allowed by
\* can_be_found, can_view_full_profile, should_show_email and
\* should_show_full_name, whatever the settings of the target.
C24_StaffBypass ==
    \A r \in Requesters :
      Privileged(r) =>
        /\ can_be_found_by_user(settings, r.user)
        /\ can_view_full_profile(settings, r)
        /\ should_show_email(settings.owner, r)
        /\ should_show_full_name(settings.owner, r)

\* C25: a teacher PATCH with status denied, or with any other status than
\* enrolled, addressed to the only enrolled-teacher membership of the course
\* answers 409 and leaves every row as it is.
C25_StatusPatchKeepsTeacher ==
    \A M \in members :
      (M.role = "teacher" /\ M.status = "enrolled"
         /\ EnrolledTeachers(M.course, members) = {M}) =>
        \A u \in Users : \A st \in PatchStatuses \ {Absent, "enrolled"} :
          HoldsEnrolledTeacherRow(u, M.course) =>
            PatchResult(u, M.course, M.pk, StatusOnly(st)) = Result(409, members)

\* C26: the owner's PATCH whose body carries a version number other than the
\* stored one answers 409.
C26_StaleVersionIsConflict ==
    \A id \in DOMAIN slideshows : \A d \in SlideshowBodies :
      (d.version.form = "number" /\ d.version.n # slideshows[id].version) =>
        SlideshowPatchResult(slideshows[id].created_by, id, d).code = 409

\* C27: a slide created without an order gets max(order of the slides of its
\* slideshow) + 1, or 0 when the slideshow has none; a slide created with an
\* order already used in its slideshow is refused and the table is left as it
\* is, with any other order it is stored with that order; no two slides of one
\* slideshow share an order.
C27_SlideOrders ==
    /\ \A sid \in TwoSlideshows :
         LET mine == SlidesOf(sid, slides)
             r == SlideObjectsCreate(sid, NoOrder)
             next == IF mine = {} THEN 0 ELSE MaxOf({x.order : x \in mine}) + 1
         IN r.ok /\ r.slides = slides \cup {SlideRow(nextSlideId, sid, next)}
    /\ \A sid \in TwoSlideshows : \A order \in RowOrders \ {NoOrder} :
         LET r == SlideObjectsCreate(sid, order)
         IN IF \E x \in slides : x.slideshow = sid /\ x.order = order
            THEN ~r.ok /\ r.slides = slides
            ELSE r.ok /\ r.slides = slides \cup {SlideRow(nextSlideId, sid, order)}
    /\ \A x \in slides : \A y \in slides :
         (x.slideshow = y.slideshow /\ x.order = y.order) => x = y

\* C27 witness: a creation with a used order has just been refused, while two
\* slides of different slideshows hold the same order and a slideshow whose
\* lowest slide was deleted holds a slide created after the gap.
C27_Witness ==
    /\ last.op = "IntegrityError"
    /\ \E x \in slides : \E y \in slides : x.slideshow # y.slideshow /\ x.order = y.order
    /\ \E sid \in TwoSlideshows :
         /\ Cardinality(SlidesOf(sid, slides)) = 2
         /\ \A x \in SlidesOf(sid, slides) : x.order > 0

\* u holds an enrolled row of course c among rows
EnrolledIn(u, c, rows) == \E m \in rows : m.user = u /\ m.course = c /\ m.status = "enrolled"

\* C28: for a user who created no course and has no enrolled row in a course
\* that is not public, no request of that user alone (join, leave, accept,
\* decline, invite, membership PATCH, membership DELETE, on any course and any
\* membership) leaves the user with an enrolled row in that course.
C28_NoSelfEnrolment ==
    \A u \in Users : \A c \in DOMAIN courses :
      (~CanCreateCourse(u) /\ courses[c].visibility # "public"
         /\ ~EnrolledIn(u, c, members)) =>
        \A k \in DOMAIN courses :
          /\ ~EnrolledIn(u, c, JoinResult(u, k).members)
          /\ ~EnrolledIn(u, c, LeaveResult(u, k).members)
          /\ ~EnrolledIn(u, c, AcceptResult(u, k).members)
          /\ ~EnrolledIn(u, c, DeclineResult(u, k).members)
          /\ \A t \in Users, r \in InviteRoles :
                ~EnrolledIn(u, c, InviteResult(u, k, t, r).members)
          /\ \A pk \in Pks :
                /\ ~EnrolledIn(u, c, RemoveResult(u, k, pk).members)
                /\ \A d \in TransferBodies :
                      ~EnrolledIn(u, c, PatchResult(u, k, pk, d).members)

\* C29: when a join or an invite commits for a (user, course) pair that has a
\* row by then, because another request created it in between, it creates no
\* row and answers 409; no two rows share a (user, course) pair.
C29_CreateOncePerPair ==
    [][\A t \in txns : \A enforced \in PairConstraint :
         (CreateCommit(t, enforced) /\ AlreadyMember(t.user, t.course))
         => (members' = members /\ last'.code = 409)
      ]_vars

\* the orders a supplied list asks for, NoOrder left out
AskedOrders(orders) == {orders[i] : i \in DOMAIN orders} \ {NoOrder}

\* C30: the owner's PATCH with a slides list, when it succeeds, leaves the
\* slideshow with as many slides as the list has, none of them a previous
\* slide, holding the orders the list asks for, and the version one higher;
\* when it does not succeed (two listed slides with the same order among the
\* causes) it leaves slides, slideshow fields and version as they were.
C30_SlidesReplaced ==
    \A id \in DOMAIN slideshows : \A d \in SlideshowBodies :
      d.slides.given =>
        LET r == SlideshowPatchResult(slideshows[id].created_by, id, d)
            now == SlidesOf(id, r.slides)
        IN IF r.code = 200
           THEN /\ now \cap slides = {}
                /\ Cardinality(now) = Len(d.slides.orders)
                /\ AskedOrders(d.slides.orders) \subseteq {x.order : x \in now}
                /\ r.slides \ now = slides \ SlidesOf(id, slides)
                /\ r.slideshows[id].version = slideshows[id].version + 1
           ELSE /\ r = SUnchanged(r.code)
                /\ d.slides.orders = <<0, 0>> => r.code # 200

====
